---- MODULE Spec2Model ----
(***************************************************************************)
(* The CRUD service of main.py over the users and posts tables declared in *)
(* models.py.                                                              *)
(*                                                                         *)
(* One server process serves the requests; it has several in flight, each  *)
(* on a worker: get_db opens a session, the handler runs, and get_db closes *)
(* the session.  The mapper registry is module state of the process, shared *)
(* by every request.                                                       *)
(*                                                                         *)
(* Every handler starts with a use of a mapped class: models.User(...) or  *)
(* models.Post(...) in the creates, db.query(models.X) in the others.  The *)
(* first such use in a process configures every mapper of the Base.  The   *)
(* relationship() declarations of models.py cannot be configured: User.posts*)
(* and Post.user join two tables with no foreign key between them          *)
(* (models.py:32 is a plain Integer column) and Comment.post, Comment.user *)
(* back-populate a property "comments" that Post and User do not have.     *)
(* The configuration raises, main.py catches nothing, and the request ends *)
(* with a server error before it reaches the store.  MappersValid computes *)
(* this from the declarations; the handlers' code after the first mapped   *)
(* use is modelled as written, in the branch taken when the mappers        *)
(* configure.                                                              *)
(*                                                                         *)
(* The store is the relational store behind the session: an auto-increment *)
(* integer primary key per table (models.py:8, 29) and the unique index on *)
(* users.username (models.py:9).  It outlives the process: create_all      *)
(* (main.py:15) creates the tables only when absent, so a process starts   *)
(* on whatever rows the store holds.  Payload strings are within the       *)
(* declared column lengths.  The detail messages are rendered in ASCII.    *)
(***************************************************************************)
EXTENDS Integers, FiniteSets, Sequences, TLC

\* ------------------------------------------------------------------ bounds
MaxUserId == 2
MaxPostId == 2

Usernames == {"a", "b"}
Titles == {"t1", "t2"}
Contents == {"c1", "c2"}
AuthorIds == {1, 2}

\* Two requests in flight in the process: every interleaving of a pair.
Workers == {1, 2}
UserIds == 1..MaxUserId
PostIds == 1..MaxPostId

\* ------------------------------------------------------------ plain records
Restrict(f, S) == [k \in (DOMAIN f) \cap S |-> f[k]]

Nil == [nil |-> TRUE]
EmptyBody == [k \in {} |-> TRUE]

\* Request bodies (pydantic models of main.py).
PostBase == [title : Titles, content : Contents, user_id : AuthorIds]
UserBase == [username : Usernames]

\* JSON bodies a client can send to PUT: any subset of the entity's fields.
PostPutBodies == {Restrict(b, S) : b \in PostBase, S \in SUBSET {"title", "content", "user_id"}}
UserPutBodies == {Restrict(b, S) : b \in UserBase, S \in SUBSET {"username"}}

\* PostUpdate declares title and content only; pydantic drops other keys.
PostUpdate(body) == Restrict(body, {"title", "content"})
UserUpdate(body) == Restrict(body, {"username"})

\* "x is not None" for a field of a parsed update model.
IsNotNone(model, field) == field \in DOMAIN model

\* ------------------------------------------------------ mapper configuration
\* __tablename__ of each mapped class.
TableOf == [User |-> "users", Profile |-> "profiles", Post |-> "posts", Comment |-> "comments"]

\* The ForeignKey columns: profiles.user_id, comments.post_id, comments.user_id.
\* posts.user_id is Column(Integer) and is not among them.
ForeignKeys ==
  { [table |-> "profiles", ref |-> "users"],
    [table |-> "comments", ref |-> "posts"],
    [table |-> "comments", ref |-> "users"] }

\* The relationship() declarations.
Relationships ==
  { [class |-> "User",    name |-> "posts",   target |-> "Post",    back |-> "user"],
    [class |-> "User",    name |-> "profile", target |-> "Profile", back |-> "user"],
    [class |-> "Profile", name |-> "user",    target |-> "User",    back |-> "profile"],
    [class |-> "Post",    name |-> "user",    target |-> "User",    back |-> "posts"],
    [class |-> "Comment", name |-> "post",    target |-> "Post",    back |-> "comments"],
    [class |-> "Comment", name |-> "user",    target |-> "User",    back |-> "comments"] }

\* A relationship needs a foreign key between its two tables ...
HasJoin(r) ==
  \E fk \in ForeignKeys : {fk.table, fk.ref} = {TableOf[r.class], TableOf[r.target]}

\* ... and the property its back_populates names on the target class.
HasBackPopulated(r) ==
  \E q \in Relationships : q.class = r.target /\ q.name = r.back

MappersValid == \A r \in Relationships : HasJoin(r) /\ HasBackPopulated(r)

\* The mapper registry of a process after a use of a mapped class:
\* new -> configured | failed, and it stays there.
ConfigureMappers(m) ==
  IF m = "new" THEN (IF MappersValid THEN "configured" ELSE "failed") ELSE m

\* A use of a mapped class raises: the configuration error at the first use,
\* "one or more mappers failed to initialize" at the later ones.
Raises(m) == ConfigureMappers(m) = "failed"
ConfigureError(m) == IF m = "new" THEN "NoForeignKeysError" ELSE "InvalidRequestError"

\* ------------------------------------------------------------- ORM helpers
\* A mapped instance: the row's columns together with its primary key.
Entity(id, row) == [k \in (DOMAIN row) \cup {"id"} |-> IF k = "id" THEN id ELSE row[k]]

\* SELECT ... WHERE id = id
Get(table, id) == IF id \in DOMAIN table THEN Entity(id, table[id]) ELSE Nil

\* db.query(Model).filter(Model.id == id).first(): db.query(Model) is a use of
\* the mapped class.
QueryFirst(table, id, m) ==
  IF Raises(m) THEN [raise |-> ConfigureError(m)] ELSE Get(table, id)

IsRaise(x) == "raise" \in DOMAIN x

\* The assignments "if update.f is not None: instance.f = update.f".
SetAttributes(instance, update) ==
  [k \in DOMAIN instance |-> IF IsNotNone(update, k) THEN update[k] ELSE instance[k]]

\* Unit of work: the columns whose value differs from the loaded one are the
\* ones the flush writes.
DirtyColumns(loaded, current) == {k \in DOMAIN loaded : current[k] # loaded[k]}

\* UPDATE table SET cols = values WHERE id = id
WriteColumns(table, id, cols, values) ==
  [table EXCEPT ![id] = [k \in DOMAIN @ |-> IF k \in cols THEN values[k] ELSE @[k]]]

\* INSERT
InsertRow(table, id, row) == [i \in (DOMAIN table) \cup {id} |-> IF i = id THEN row ELSE table[i]]

\* DELETE FROM table WHERE id = id
DeleteRow(table, id) == [i \in (DOMAIN table) \ {id} |-> table[i]]

\* primary_key=True on an Integer column: the store issues the next key.
NextId(seq) == seq + 1

\* unique=True on users.username: another row already holds the name.
UniqueViolation(table, id, username) ==
  \E j \in (DOMAIN table) \ {id} : table[j].username = username

\* ---------------------------------------------------------------- responses
Returned(code, body) == [status |-> code, body |-> body, raised |-> "none"]
HTTPException(code, detail) ==
  [status |-> code, body |-> [detail |-> detail], raised |-> "HTTPException"]
Uncaught(exception) ==
  [status |-> 500, body |-> [text |-> "Internal Server Error"], raised |-> exception]
NoResponse == [status |-> 0, body |-> Nil, raised |-> "none"]

UserNotFound == HTTPException(404, "user not found")
PostNotFound == HTTPException(404, "post not found")

\* db.refresh(instance); return instance
Refreshed(table, id, code) ==
  LET row == Get(table, id)
  IN  IF row = Nil THEN Uncaught("InvalidRequestError") ELSE Returned(code, row)

\* ----------------------------------------------------------------- requests
NoRequest == [op |-> "none", id |-> 0, body |-> EmptyBody]

UserRequests ==
  {[op |-> "create_user", id |-> 0, body |-> b] : b \in UserBase}
  \cup {[op |-> o, id |-> i, body |-> EmptyBody] : o \in {"read_user", "delete_user"}, i \in UserIds}
  \cup {[op |-> "update_user", id |-> i, body |-> b] : i \in UserIds, b \in UserPutBodies}

PostRequests ==
  {[op |-> "create_post", id |-> 0, body |-> b] : b \in PostBase}
  \cup {[op |-> o, id |-> i, body |-> EmptyBody] : o \in {"read_post", "delete_post"}, i \in PostIds}
  \cup {[op |-> "update_post", id |-> i, body |-> b] : i \in PostIds, b \in PostPutBodies}

Requests == UserRequests \cup PostRequests

\* Every operation, on fewer distinct payloads.
FewRequests ==
  {q \in Requests :
     /\ q.op = "create_post" => q.body = [title |-> "t1", content |-> "c1", user_id |-> 1]
     /\ q.op = "update_post" => q.body \in {EmptyBody, [title |-> "t2"]}
     /\ q.op \in {"read_post", "update_post", "delete_post"} => q.id = 1}

\* The requests that write the users table.
UserWrites == {q \in UserRequests : q.op # "read_user"}

\* ------------------------------------------------- what each handler does
\* Each gives the table after the handler and the response; the creates also
\* the last key issued.

\* Mutant: a create_user that inserts by hand, past mappers and unique index.
create_user_unchecked(table, seq, body, m) ==
  [table |-> InsertRow(table, NextId(seq), [username |-> body.username]),
   seq |-> NextId(seq),
   response |-> Returned(201, Entity(NextId(seq), [username |-> body.username]))]

\* db_user = models.User(username=...); db.add; db.commit; db.refresh; return
create_user_outcome(table, seq, body, m) ==
  IF Raises(m)
  THEN [table |-> table, seq |-> seq, response |-> Uncaught(ConfigureError(m))]
  ELSE LET id == NextId(seq)
       IN  IF UniqueViolation(table, id, body.username)
           THEN [table |-> table, seq |-> id, response |-> Uncaught("IntegrityError")]
           ELSE LET t == InsertRow(table, id, [username |-> body.username])
                IN  [table |-> t, seq |-> id, response |-> Refreshed(t, id, 201)]

\* db_post = models.Post(**post.dict()); db.add; db.commit; db.refresh; return
create_post_outcome(table, seq, body, m) ==
  IF Raises(m)
  THEN [table |-> table, seq |-> seq, response |-> Uncaught(ConfigureError(m))]
  ELSE LET id == NextId(seq)
           t == InsertRow(table, id, body)
       IN  [table |-> t, seq |-> id, response |-> Refreshed(t, id, 201)]

read_user_result(table, id, m) ==
  LET user == QueryFirst(table, id, m)
  IN  IF IsRaise(user) THEN Uncaught(user.raise)
      ELSE IF user = Nil THEN UserNotFound
      ELSE Returned(200, user)

read_post_result(table, id, m) ==
  LET post == QueryFirst(table, id, m)
  IN  IF IsRaise(post) THEN Uncaught(post.raise)
      ELSE IF post = Nil THEN PostNotFound
      ELSE Returned(200, post)

\* The instance update_post / update_user hold after their assignments.
update_post_assign(post, body) == SetAttributes(post, PostUpdate(body))
update_user_assign(user, body) == SetAttributes(user, UserUpdate(body))

update_user_outcome(table, id, body, m) ==
  LET user == QueryFirst(table, id, m)
  IN  IF IsRaise(user) THEN [table |-> table, response |-> Uncaught(user.raise)]
      ELSE IF user = Nil THEN [table |-> table, response |-> UserNotFound]
      ELSE LET new == update_user_assign(user, body)
               dirty == DirtyColumns(user, new)
           IN  IF dirty # {} /\ UniqueViolation(table, id, new.username)
               THEN [table |-> table, response |-> Uncaught("IntegrityError")]
               ELSE LET t == IF dirty = {} THEN table
                             ELSE WriteColumns(table, id, dirty, new)
                    IN  [table |-> t, response |-> Refreshed(t, id, 200)]

update_post_outcome(table, id, body, m) ==
  LET post == QueryFirst(table, id, m)
  IN  IF IsRaise(post) THEN [table |-> table, response |-> Uncaught(post.raise)]
      ELSE IF post = Nil THEN [table |-> table, response |-> PostNotFound]
      ELSE LET new == update_post_assign(post, body)
               dirty == DirtyColumns(post, new)
               t == IF dirty = {} THEN table ELSE WriteColumns(table, id, dirty, new)
           IN  [table |-> t, response |-> Refreshed(t, id, 200)]

delete_user_outcome(table, id, m) ==
  LET user == QueryFirst(table, id, m)
  IN  IF IsRaise(user) THEN [table |-> table, response |-> Uncaught(user.raise)]
      ELSE IF user = Nil THEN [table |-> table, response |-> UserNotFound]
      ELSE [table |-> DeleteRow(table, id),
            response |-> Returned(204, [detail |-> "user deleted"])]

delete_post_outcome(table, id, m) ==
  LET post == QueryFirst(table, id, m)
  IN  IF IsRaise(post) THEN [table |-> table, response |-> Uncaught(post.raise)]
      ELSE IF post = Nil THEN [table |-> table, response |-> PostNotFound]
      ELSE [table |-> DeleteRow(table, id),
            response |-> Returned(204, [detail |-> "post deleted"])]

VARIABLES
  users,      \* table users: id -> [username]
  posts,      \* table posts: id -> [title, content, user_id]
  user_seq,   \* last primary key issued for users
  post_seq,   \* last primary key issued for posts
  mappers,    \* the mapper registry of the process: new, configured, failed
  pc,         \* per worker: idle, handler, exit, done
  request,    \* per worker: the request being served
  db,         \* per worker: the session of get_db: none, open, closed
  closes,     \* per worker: number of db.close() calls for the request
  response    \* per worker: what the client gets

vars == <<users, posts, user_seq, post_seq, mappers, pc, request, db, closes, response>>
store == <<users, posts, user_seq, post_seq>>

UniqueUsernames ==
  \A i \in DOMAIN users : \A j \in DOMAIN users :
     i # j => users[i].username # users[j].username

Tables(ids, rows) == UNION {[S -> rows] : S \in SUBSET ids}

\* Process start: the tables hold rows the store accepted earlier.
Init ==
  /\ user_seq \in 0..MaxUserId
  /\ post_seq \in 0..MaxPostId
  /\ users \in Tables(1..user_seq, UserBase)
  /\ posts \in Tables(1..post_seq, PostBase)
  /\ UniqueUsernames
  /\ mappers = "new"
  /\ pc = [w \in Workers |-> "idle"]
  /\ request = [w \in Workers |-> NoRequest]
  /\ db = [w \in Workers |-> "none"]
  /\ closes = [w \in Workers |-> 0]
  /\ response = [w \in Workers |-> NoResponse]

\* Creates in flight on a table: each may take one primary key.
Pending(op) == Cardinality({w \in Workers : pc[w] = "handler" /\ request[w].op = op})

\* ------------------------------------------------------------------ get_db
\* db = SessionLocal(); yield db
get_db_open(w, inputs) ==
  /\ pc[w] = "idle"
  /\ \E q \in inputs :
       /\ q.op = "create_user" => user_seq + Pending("create_user") < MaxUserId
       /\ q.op = "create_post" => post_seq + Pending("create_post") < MaxPostId
       /\ request' = [request EXCEPT ![w] = q]
  /\ db' = [db EXCEPT ![w] = "open"]
  /\ closes' = [closes EXCEPT ![w] = 0]
  /\ pc' = [pc EXCEPT ![w] = "handler"]
  /\ UNCHANGED <<store, mappers, response>>

\* Mutant: get_db without try/finally: a handler that raises skips the close.
get_db_close_unless_raised(w) ==
  /\ pc[w] = "exit"
  /\ db' = [db EXCEPT ![w] = IF response[w].raised = "none" THEN "closed" ELSE "open"]
  /\ closes' = [closes EXCEPT ![w] = IF response[w].raised = "none" THEN closes[w] + 1 ELSE closes[w]]
  /\ pc' = [pc EXCEPT ![w] = "done"]
  /\ UNCHANGED <<store, mappers, request, response>>

\* finally: db.close()  -- runs whether the handler returned or raised
get_db_close(w) ==
  /\ pc[w] = "exit"
  /\ db' = [db EXCEPT ![w] = "closed"]
  /\ closes' = [closes EXCEPT ![w] = closes[w] + 1]
  /\ pc' = [pc EXCEPT ![w] = "done"]
  /\ UNCHANGED <<store, mappers, request, response>>

\* The response has been delivered; the worker takes the next request.
Finish(w) ==
  /\ pc[w] = "done"
  /\ pc' = [pc EXCEPT ![w] = "idle"]
  /\ request' = [request EXCEPT ![w] = NoRequest]
  /\ db' = [db EXCEPT ![w] = "none"]
  /\ closes' = [closes EXCEPT ![w] = 0]
  /\ response' = [response EXCEPT ![w] = NoResponse]
  /\ UNCHANGED <<store, mappers>>

\* The handler of worker w runs: it has used a mapped class and ends (return
\* or raise) with response r.
Exit(w, r) ==
  /\ response' = [response EXCEPT ![w] = r]
  /\ mappers' = ConfigureMappers(mappers)
  /\ pc' = [pc EXCEPT ![w] = "exit"]
  /\ UNCHANGED <<request, db, closes>>

\* ---------------------------------------------------------------- handlers
create_user(w) ==
  /\ pc[w] = "handler" /\ request[w].op = "create_user"
  /\ LET o == create_user_outcome(users, user_seq, request[w].body, mappers)
     IN  users' = o.table /\ user_seq' = o.seq /\ Exit(w, o.response)
  /\ UNCHANGED <<posts, post_seq>>

read_user(w) ==
  /\ pc[w] = "handler" /\ request[w].op = "read_user"
  /\ Exit(w, read_user_result(users, request[w].id, mappers))
  /\ UNCHANGED store

update_user(w) ==
  /\ pc[w] = "handler" /\ request[w].op = "update_user"
  /\ LET o == update_user_outcome(users, request[w].id, request[w].body, mappers)
     IN  users' = o.table /\ Exit(w, o.response)
  /\ UNCHANGED <<posts, user_seq, post_seq>>

delete_user(w) ==
  /\ pc[w] = "handler" /\ request[w].op = "delete_user"
  /\ LET o == delete_user_outcome(users, request[w].id, mappers)
     IN  users' = o.table /\ Exit(w, o.response)
  /\ UNCHANGED <<posts, user_seq, post_seq>>

create_post(w) ==
  /\ pc[w] = "handler" /\ request[w].op = "create_post"
  /\ LET o == create_post_outcome(posts, post_seq, request[w].body, mappers)
     IN  posts' = o.table /\ post_seq' = o.seq /\ Exit(w, o.response)
  /\ UNCHANGED <<users, user_seq>>

read_post(w) ==
  /\ pc[w] = "handler" /\ request[w].op = "read_post"
  /\ Exit(w, read_post_result(posts, request[w].id, mappers))
  /\ UNCHANGED store

update_post(w) ==
  /\ pc[w] = "handler" /\ request[w].op = "update_post"
  /\ LET o == update_post_outcome(posts, request[w].id, request[w].body, mappers)
     IN  posts' = o.table /\ Exit(w, o.response)
  /\ UNCHANGED <<users, user_seq, post_seq>>

delete_post(w) ==
  /\ pc[w] = "handler" /\ request[w].op = "delete_post"
  /\ LET o == delete_post_outcome(posts, request[w].id, mappers)
     IN  posts' = o.table /\ Exit(w, o.response)
  /\ UNCHANGED <<users, user_seq, post_seq>>

\* ---------------------------------------------------------- specifications
\* Everything a worker does once its request has been accepted.
Handle(w) ==
  \/ create_user(w) \/ read_user(w) \/ update_user(w) \/ delete_user(w)
  \/ create_post(w) \/ read_post(w) \/ update_post(w) \/ delete_post(w)
  \/ get_db_close(w)

\* One request at a time.
Next == get_db_open(1, Requests) \/ Handle(1) \/ Finish(1)
Spec == Init /\ [][Next]_vars

\* Process start on a store whose posts have one content only.
FewInit ==
  /\ Init
  /\ \A i \in DOMAIN posts : posts[i] = [title |-> "t1", content |-> "c1", user_id |-> 1]

\* Process start on a store with no posts.
UsersInit == Init /\ post_seq = 0

\* One request at a time; a request that has been accepted runs to its end.
FairNext == get_db_open(1, FewRequests) \/ Handle(1) \/ Finish(1)
FairSpec == FewInit /\ [][FairNext]_vars /\ WF_vars(Handle(1))

\* Requests served by several workers on the same store.
ConcNext == \E w \in Workers : get_db_open(w, FewRequests) \/ Handle(w) \/ Finish(w)
ConcSpec == FewInit /\ [][ConcNext]_vars

\* The requests that write the users table, served by several workers.
UsersNext ==
  \E w \in Workers :
    \/ get_db_open(w, UserWrites)
    \/ create_user(w) \/ update_user(w) \/ delete_user(w)
    \/ get_db_close(w) \/ Finish(w)
UsersSpec == UsersInit /\ [][UsersNext]_vars

TypeOK ==
  /\ DOMAIN users \subseteq 1..user_seq
  /\ DOMAIN posts \subseteq 1..post_seq
  /\ \A i \in DOMAIN users : users[i] \in UserBase
  /\ \A i \in DOMAIN posts : posts[i] \in PostBase
  /\ \A w \in Workers : pc[w] \in {"idle", "handler", "exit", "done"}
  /\ mappers \in {"new", "configured", "failed"}

\* ------------------------------------------------------------------ claims
UserByIdOps == {"read_user", "update_user", "delete_user"}
PostByIdOps == {"read_post", "update_post", "delete_post"}

\* The handler of worker w runs in this step.
Leaves(w, from) == pc[w] = from /\ pc'[w] # from

\* The row a partial update asks for: the update's fields over the old row.
Overwrite(row, update) ==
  [k \in DOMAIN row |-> IF k \in DOMAIN update THEN update[k] ELSE row[k]]

Held(name) == \E i \in DOMAIN users : users[i].username = name

\* C1: under every interleaving of create_user, update_user and delete_user
\* no two user rows have the same username, and a create_user whose username
\* an existing row holds fails and adds no row.
C1_UsernameUnique ==
  /\ []UniqueUsernames
  /\ [][\A w \in Workers :
          (Leaves(w, "handler") /\ request[w].op = "create_user"
             /\ Held(request[w].body.username))
          => (users' = users /\ response'[w].status >= 400 /\ pc'[w] = "exit")]_vars

\* A create_user on a held username has failed while another request is in
\* its handler.
C1_Witness ==
  \E w \in Workers : \E v \in Workers \ {w} :
    /\ request[w].op = "create_user"
    /\ pc[w] = "exit"
    /\ response[w].status = 500
    /\ Held(request[w].body.username)
    /\ pc[v] = "handler"

\* C2: a GET, PUT or DELETE by id on either resource for which no row has
\* that primary key ends with the 404 error carrying a detail message, not
\* with an entity, and changes no stored row.
C2_NotFound ==
  [][\A w \in Workers :
       (/\ Leaves(w, "handler")
        /\ \/ request[w].op \in UserByIdOps /\ request[w].id \notin DOMAIN users
           \/ request[w].op \in PostByIdOps /\ request[w].id \notin DOMAIN posts)
       => (/\ response'[w].status = 404
           /\ response'[w].raised = "HTTPException"
           /\ DOMAIN response'[w].body = {"detail"}
           /\ users' = users /\ posts' = posts)]_vars

\* C3: a PUT on an existing post or user overwrites exactly the fields that
\* are non-null in the payload and leaves every other field and every other
\* row unchanged; with no field set it is a no-op; it returns 200 and the
\* entity.
C3_PartialUpdate ==
  [][\A w \in Workers :
       /\ (Leaves(w, "handler") /\ request[w].op = "update_post"
             /\ request[w].id \in DOMAIN posts)
          => /\ posts' = [posts EXCEPT ![request[w].id] =
                            Overwrite(@, Restrict(request[w].body, {"title", "content"}))]
             /\ users' = users
             /\ response'[w] = Returned(200, Entity(request[w].id, posts'[request[w].id]))
       /\ (Leaves(w, "handler") /\ request[w].op = "update_user"
             /\ request[w].id \in DOMAIN users)
          => /\ users' = [users EXCEPT ![request[w].id] =
                            Overwrite(@, Restrict(request[w].body, {"username"}))]
             /\ posts' = posts
             /\ response'[w] = Returned(200, Entity(request[w].id, users'[request[w].id]))]_vars

\* C6: creating a user with a username no row holds returns 201 and an
\* entity with the supplied username and a non-null id that no row already
\* present has; the rows already stored are unchanged.
C6_CreateUser ==
  [][\A w \in Workers :
       (Leaves(w, "handler") /\ request[w].op = "create_user"
          /\ ~Held(request[w].body.username))
       => /\ response'[w].status = 201
          /\ DOMAIN response'[w].body = {"id", "username"}
          /\ response'[w].body.username = request[w].body.username
          /\ response'[w].body.id \in Nat \ {0}
          /\ response'[w].body.id \notin DOMAIN users
          /\ \A j \in DOMAIN users : j \in DOMAIN users' /\ users'[j] = users[j]
          /\ posts' = posts]_vars

\* C7: every session get_db opens is closed, exactly once, when the request
\* ends, whether the handler returned or raised; no request ends with its
\* session open.
C7_SessionReleased ==
  /\ \A w \in {1} : [](db[w] = "open" => <>(db[w] = "closed"))
  /\ [](\A w \in Workers :
          /\ pc[w] = "done" => (db[w] = "closed" /\ closes[w] = 1)
          /\ pc[w] = "idle" => db[w] = "none"
          /\ closes[w] <= 1)

\* A request whose handler died of an uncaught exception has its session
\* closed.
C7_Witness ==
  \E w \in Workers :
    /\ pc[w] = "done"
    /\ response[w].status = 500
    /\ response[w].raised \notin {"none", "HTTPException"}
    /\ db[w] = "closed"
    /\ closes[w] = 1

\* C9: a PUT on an existing post whose payload has a non-null user_id
\* overwrites the stored user_id with it.
C9_UpdateUserId ==
  [][\A w \in Workers :
       (Leaves(w, "handler") /\ request[w].op = "update_post"
          /\ request[w].id \in DOMAIN posts
          /\ "user_id" \in DOMAIN request[w].body)
       => (/\ request[w].id \in DOMAIN posts'
           /\ posts'[request[w].id].user_id = request[w].body.user_id)]_vars

\* C10: with requests interleaved, a PUT or DELETE on a post ends with its
\* success status or with 404, and a post reported deleted is not stored.
C10_TwoOutcomes ==
  \A w \in Workers :
    pc[w] \in {"exit", "done"} =>
      /\ request[w].op = "update_post" => response[w].status \in {200, 404}
      /\ request[w].op = "delete_post" => response[w].status \in {204, 404}
      /\ (request[w].op = "delete_post" /\ response[w].status = 204 /\ pc[w] = "exit")
         => request[w].id \notin DOMAIN posts

====
